---- MODULE Spec2Model ----
(***************************************************************************)
(* render-teapot-blender.py: a linear Blender batch script.  It clears the *)
(* scene, loads teapot.obj (host importer, or the manual OBJ parser when   *)
(* the importer raises), sets up world, lights, material and camera, and   *)
(* renders four PNG icons.                                                 *)
(*                                                                         *)
(* Text is modelled character by character: a line is a sequence of        *)
(* one-character strings over the alphabet                                 *)
(*     v f n g # / - + . 0..9 space tab newline                            *)
(* so startswith, strip, split, float and int are computed as Python       *)
(* computes them on that alphabet.  A float is the pair <<num, den>> of a  *)
(* decimal fraction in lowest decimal terms (den a power of ten).          *)
(***************************************************************************)
EXTENDS Integers, Sequences, FiniteSets, TLC

VARIABLES
    pc,          \* position in the script
    objs,        \* scene objects: name -> [type, selected, hidden, mats, scale, loc]
    materials,   \* bpy.data.materials created by the script
    world,       \* scene.world: [ok, use_nodes, bg]
    sceneCamera, \* scene.camera (an object name, or "none")
    render,      \* scene.render / scene.cycles settings
    importTries, \* number of calls of bpy.ops.import_scene.obj
    importErr,   \* what the import call raised ("none" when it returned, "pending" before)
    lines,       \* the lines the open file yields
    lineNo,      \* index of the next line of the for loop
    vertices,    \* the parser's vertex list
    faces,       \* the parser's face list
    mesh,        \* the data handed to mesh.from_pydata
    renderCalls, \* the render-and-write invocations that returned, in order
    printed,     \* status lines printed
    error        \* the unhandled exception that ended the script ("none" otherwise)

vars == <<pc, objs, materials, world, sceneCamera, render, importTries, importErr,
          lines, lineNo, vertices, faces, mesh, renderCalls, printed, error>>

(***************************************************************************)
(* Bounds of the model.                                                    *)
(***************************************************************************)
MaxLines == 2      \* files of up to MaxLines lines over LineSet (plus the fixtures)
MaxImported == 2   \* objects the host importer may create

(***************************************************************************)
(* Python string operations, on sequences of characters.                   *)
(***************************************************************************)
Digits == <<"0", "1", "2", "3", "4", "5", "6", "7", "8", "9">>

IsDigit(c) == \E i \in 1..10 : Digits[i] = c

DigitVal(c) == (CHOOSE i \in 1..10 : Digits[i] = c) - 1

\* the whitespace characters of the alphabet (str.isspace)
Whitespace == {" ", "\t", "\n"}

IsSpace(c) == c \in Whitespace

\* line.startswith(prefix)
StartsWith(s, prefix) ==
    /\ Len(s) >= Len(prefix)
    /\ SubSeq(s, 1, Len(prefix)) = prefix

\* s[i:j] with Python's clamping (0-based, j exclusive)
Slice(s, i, j) == SubSeq(s, i + 1, IF j < Len(s) THEN j ELSE Len(s))

RECURSIVE LStrip(_)
LStrip(s) == IF s # <<>> /\ IsSpace(Head(s)) THEN LStrip(Tail(s)) ELSE s

RECURSIVE RStrip(_)
RStrip(s) ==
    IF s # <<>> /\ IsSpace(s[Len(s)]) THEN RStrip(SubSeq(s, 1, Len(s) - 1)) ELSE s

\* line.strip()
Strip(s) == RStrip(LStrip(s))

\* the longest prefix of s without a separator character
RECURSIVE TakeWord(_, _)
TakeWord(s, seps) ==
    IF s = <<>> \/ Head(s) \in seps THEN <<>>
    ELSE <<Head(s)>> \o TakeWord(Tail(s), seps)

\* str.split(): the maximal runs of non-whitespace characters
RECURSIVE Split(_)
Split(s) ==
    LET t == LStrip(s) IN
    IF t = <<>> THEN <<>>
    ELSE LET w == TakeWord(t, Whitespace) IN
         <<w>> \o Split(SubSeq(t, Len(w) + 1, Len(t)))

\* the longest suffix of s without a separator character
RECURSIVE TakeLastWord(_, _)
TakeLastWord(s, seps) ==
    IF s = <<>> \/ s[Len(s)] \in seps THEN <<>>
    ELSE TakeLastWord(SubSeq(s, 1, Len(s) - 1), seps) \o <<s[Len(s)]>>

\* mutant: p.split('/')[-1], the last component in place of the first
LastComponent(p) == TakeLastWord(p, {"/"})

\* p.split('/')[0]
FirstComponent(p) == TakeWord(p, {"/"})

\* a token without its leading sign
Unsigned(t) == IF t # <<>> /\ Head(t) \in {"-", "+"} THEN Tail(t) ELSE t

Sign(t) == IF t # <<>> /\ Head(t) = "-" THEN -1 ELSE 1

RECURSIVE DigitsVal(_)
DigitsVal(d) ==
    IF d = <<>> THEN 0 ELSE 10 * DigitsVal(SubSeq(d, 1, Len(d) - 1)) + DigitVal(d[Len(d)])

AllDigits(d) == \A i \in 1..Len(d) : IsDigit(d[i])

\* int(t) returns (does not raise ValueError)
IsInt(t) == LET u == Unsigned(t) IN u # <<>> /\ AllDigits(u)

\* int(t)
IntVal(t) == Sign(t) * DigitsVal(Unsigned(t))

RECURSIVE Pow10(_)
Pow10(n) == IF n = 0 THEN 1 ELSE 10 * Pow10(n - 1)

\* a decimal fraction in lowest decimal terms
RECURSIVE Normal(_, _)
Normal(num, den) ==
    IF den > 1 /\ num % 10 = 0 THEN Normal(num \div 10, den \div 10) ELSE <<num, den>>

\* float(t) returns: [sign] digits [. [digits]]  or  [sign] . digits
IsFloat(t) ==
    LET u == Unsigned(t)
        ip == TakeWord(u, {"."})
        rest == SubSeq(u, Len(ip) + 1, Len(u))
        fp == IF rest = <<>> THEN <<>> ELSE Tail(rest)
    IN /\ AllDigits(ip)
       /\ AllDigits(fp)
       /\ Len(ip) + Len(fp) > 0

\* float(t)
FloatVal(t) ==
    LET u == Unsigned(t)
        ip == TakeWord(u, {"."})
        rest == SubSeq(u, Len(ip) + 1, Len(u))
        fp == IF rest = <<>> THEN <<>> ELSE Tail(rest)
    IN Normal(Sign(t) * (DigitsVal(ip) * Pow10(Len(fp)) + DigitsVal(fp)), Pow10(Len(fp)))

(***************************************************************************)
(* The OBJ files read by open(obj_path): their lines, as iterating over the *)
(* file yields them (each with its newline, but possibly the last).        *)
(***************************************************************************)
\* a vertex line
LineV0 == <<"v", " ", "0", " ", "0", " ", "0", "\n">>

\* a vertex line
LineV1 == <<"v", " ", "1", " ", "0", " ", "0", "\n">>

\* a vertex line
LineV2 == <<"v", " ", "1", " ", "1", " ", "0", "\n">>

\* a vertex line
LineV3 == <<"v", " ", "0", " ", "1", " ", "0", "\n">>

\* runs of blanks, signed and fractional forms, a 4th (w) coordinate
LineVW == <<"v", " ", " ", "-", "1", ".", "5", " ", ".", "5", " ", "2", ".", " ", "1", "\n">>

\* ill-formed: two coordinates only
LineVShort == <<"v", " ", "1", " ", "2", "\n">>

\* ill-formed: a coordinate that is no float
LineVBad == <<"v", " ", "1", " ", "n", " ", "0", "\n">>

\* a face of plain indices
LineF1 == <<"f", " ", "1", " ", "1", " ", "1", "\n">>

\* the v/vt, v//vn and v/vt/vn token forms
LineF12 == <<"f", " ", "1", "/", "1", " ", "2", "/", "/", "2", " ", "1", "/", "2", "/", "2", "\n">>

\* the v/vt, v//vn and v/vt/vn token forms
LineF123 == <<"f", " ", "1", "/", "1", " ", "2", "/", "/", "2", " ", "3", "/", "3", "/", "3", "\n">>

\* the quad of the unit square
LineFQuad == <<"f", " ", "1", " ", "2", " ", "3", " ", "4", "\n">>

\* a last line without a newline
LineFNoEol == <<"f", " ", "2", " ", "1", " ", "2">>

\* ill-formed: a token whose first component is empty
LineFBad == <<"f", " ", "1", " ", "/", "2", " ", "1", "\n">>

\* a normal
LineVn == <<"v", "n", " ", "0", " ", "0", " ", "1", "\n">>

\* a comment
LineComment == <<"#", " ", "v", " ", "1", " ", "2", " ", "3", "\n">>

\* a blank line
LineBlank == <<"\n">>

\* a vertex line behind leading whitespace
LineIndented == <<" ", "v", " ", "9", " ", "9", " ", "9", "\n">>

\* v followed by a tab, not a blank
LineVTab == <<"v", "\t", "1", " ", "2", " ", "3", "\n">>

\* a group
LineGroup == <<"g", " ", "f", " ", "1", "\n">>

\* the lines the bounded files are made of
LineSet ==
    {LineV0, LineVW, LineVShort, LineVBad, LineF1, LineF12, LineFNoEol, LineFBad,
     LineVn, LineBlank, LineIndented, LineVTab, LineGroup}

\* iterating a text file yields lines that end in a newline, except possibly the last
WellTerminated(f) == \A i \in 1..(Len(f) - 1) : f[i][Len(f[i])] = "\n"

\* the unit square of four vertices and one quad
SquareFile == <<LineV0, LineV1, LineV2, LineV3, LineFQuad>>

\* a face ahead of the vertices it names
FaceFirstFile == <<LineF123, LineV0, LineV1, LineV2>>

\* vertices and faces among ignored lines, the last line unterminated
MixedFile == <<LineComment, LineV0, LineVn, LineIndented, LineVW, LineBlank, LineFNoEol>>

Fixtures == {SquareFile, FaceFirstFile, MixedFile}

Files ==
    {f \in UNION {[1..n -> LineSet] : n \in 0..MaxLines} : WellTerminated(f)} \cup Fixtures

(***************************************************************************)
(* Host state.                                                             *)
(***************************************************************************)
One == <<1, 1>>
Zero == <<0, 1>>

\* a scene object as the host creates it: unselected, visible, unit scale, at the origin
NewObject(type) ==
    [type |-> type, selected |-> FALSE, hidden |-> FALSE, mats |-> <<>>,
     scale |-> <<One, One, One>>, loc |-> <<0, 0, 0>>, energy |-> Zero]

NoObjects == [n \in {} |-> NewObject("MESH")]

\* the factory startup scene
DefaultScene ==
    [n \in {"Cube", "Light", "Camera"} |->
        CASE n = "Cube" -> [NewObject("MESH") EXCEPT !.selected = TRUE]
          [] n = "Light" -> [NewObject("LIGHT") EXCEPT !.loc = <<4, 1, 6>>]
          [] n = "Camera" -> [NewObject("CAMERA") EXCEPT !.loc = <<7, -7, 5>>]]

FactoryRender ==
    [engine |-> "BLENDER_EEVEE", samples |-> 4096, filepath |-> <<"/tmp", "">>,
     file_format |-> "PNG", color_mode |-> "RGBA",
     resolution_x |-> 1920, resolution_y |-> 1080]

FactoryWorld == [ok |-> TRUE, use_nodes |-> TRUE, bg |-> <<<<5, 100>>, <<5, 100>>, <<5, 100>>, One>>]

\* the states the host can hand the script: the factory startup file, a user startup
\* file (a hidden mesh, other output settings), and a scene without a world
Startups ==
    { [objs |-> DefaultScene, world |-> FactoryWorld, render |-> FactoryRender],
      [objs |-> [DefaultScene EXCEPT !["Cube"].hidden = TRUE, !["Cube"].selected = FALSE],
       world |-> [FactoryWorld EXCEPT !.use_nodes = FALSE],
       render |-> [FactoryRender EXCEPT !.file_format = "JPEG", !.color_mode = "RGB"]],
      [objs |-> NoObjects, world |-> [FactoryWorld EXCEPT !.ok = FALSE],
       render |-> FactoryRender] }

\* no data has been handed to a mesh
NoMesh == [set |-> FALSE, vertices |-> <<>>, edges |-> <<>>, faces |-> <<>>]

\* what the import call can raise: the operator is missing, or the importer failed
ImportErrors == {"AttributeError", "RuntimeError"}

Init ==
    /\ pc = "clear"
    /\ \E s \in Startups : objs = s.objs /\ world = s.world /\ render = s.render
    /\ materials = {}
    /\ sceneCamera = "none"
    /\ importTries = 0
    /\ importErr = "pending"
    /\ lines = <<>>
    /\ lineNo = 0
    /\ vertices = <<>>
    /\ faces = <<>>
    /\ mesh = NoMesh
    /\ renderCalls = <<>>
    /\ printed = <<>>
    /\ error = "none"

\* an exception nothing catches: the host ends the script
Raise(e) == pc' = "aborted" /\ error' = e

(***************************************************************************)
(* Lines 15-17: clear default objects.                                     *)
(***************************************************************************)
\* select_all(action='SELECT') selects the visible objects
SelectAll(o) == [n \in DOMAIN o |-> [o[n] EXCEPT !.selected = ~o[n].hidden]]

\* delete(use_global=False) removes the selected objects
DeleteSelected(o) == [n \in {m \in DOMAIN o : ~o[m].selected} |-> o[n]]

ClearObjects ==
    /\ pc = "clear"
    /\ objs' = DeleteSelected(SelectAll(objs))
    /\ pc' = "import"
    /\ UNCHANGED <<materials, world, sceneCamera, render, importTries, importErr, lines,
                   lineNo, vertices, faces, mesh, renderCalls, printed, error>>

(***************************************************************************)
(* Lines 19-22: the import call and its bare except.                       *)
(***************************************************************************)
\* the names the host gives the objects of one import
ImportNames == <<"teapot", "teapot.001", "teapot.002", "teapot.003">>

\* the host importer deselects everything and leaves the objects it created selected
Imported(o, k, mtl) ==
    [n \in DOMAIN o \cup {ImportNames[i] : i \in 1..k} |->
        IF n \in DOMAIN o THEN [o[n] EXCEPT !.selected = FALSE]
        ELSE [NewObject("MESH") EXCEPT !.selected = TRUE,
                                       !.mats = IF mtl THEN <<<<"mtl", n>>>> ELSE <<>>]]

ImportReturns ==
    /\ pc = "import"
    /\ importTries' = importTries + 1
    /\ importErr' = "none"
    /\ \E k \in 1..MaxImported, mtl \in BOOLEAN : objs' = Imported(objs, k, mtl)
    /\ pc' = "world"
    /\ UNCHANGED <<materials, world, sceneCamera, render, lines, lineNo, vertices,
                   faces, mesh, renderCalls, printed, error>>

\* mutant: except AttributeError: only a missing operator leads to the fallback
ImportRaises_Narrow ==
    /\ pc = "import"
    /\ importTries' = importTries + 1
    /\ \E e \in ImportErrors :
          /\ importErr' = e
          /\ IF e = "AttributeError" THEN pc' = "open" /\ error' = error ELSE Raise(e)
    /\ UNCHANGED <<objs, materials, world, sceneCamera, render, lines, lineNo, vertices,
                   faces, mesh, renderCalls, printed>>

\* except: (no exception class, the exception is dropped)
ImportRaises ==
    /\ pc = "import"
    /\ importTries' = importTries + 1
    /\ \E e \in ImportErrors : importErr' = e
    /\ pc' = "open"
    /\ UNCHANGED <<objs, materials, world, sceneCamera, render, lines, lineNo, vertices,
                   faces, mesh, renderCalls, printed, error>>

(***************************************************************************)
(* Lines 23-37: the manual parser.                                         *)
(***************************************************************************)
\* The contents of teapot.obj are an input of the run: they are drawn from Files
\* where the script reads them; a file that cannot be opened raises.
Open ==
    /\ pc = "open"
    /\ vertices' = <<>>
    /\ faces' = <<>>
    /\ \/ \E f \in Files : lines' = f /\ lineNo' = 1 /\ pc' = "parse" /\ error' = error
       \/ Raise("FileNotFoundError") /\ UNCHANGED <<lines, lineNo>>
    /\ UNCHANGED <<objs, materials, world, sceneCamera, render, importTries, importErr,
                   mesh, renderCalls, printed>>

\* mutant: the prefix test made on the stripped line
IsVertexLine_Stripped(line) == StartsWith(Strip(line), <<"v", " ">>)

IsVertexLine(line) == StartsWith(line, <<"v", " ">>)

IsFaceLine(line) == ~IsVertexLine(line) /\ StartsWith(line, <<"f", " ">>)

\* mutant: parts[1:], every token after the first
VertexTokens_All(line) == Slice(Split(Strip(line)), 1, Len(Split(Strip(line))))

\* parts[1:4] of a vertex line
VertexTokens(line) == Slice(Split(Strip(line)), 1, 4)

\* [float(x) for x in parts[1:4]]
VertexOf(line) == [i \in 1..Len(VertexTokens(line)) |-> FloatVal(VertexTokens(line)[i])]

\* parts[1:] of a face line
FaceTokens(line) == Slice(Split(Strip(line)), 1, Len(Split(Strip(line))))

\* mutant: the index kept 1-based
FaceIndex_OneBased(p) == IntVal(FirstComponent(p))

\* int(p.split('/')[0]) - 1
FaceIndex(p) == IntVal(FirstComponent(p)) - 1

FaceOf(line) == [i \in 1..Len(FaceTokens(line)) |-> FaceIndex(FaceTokens(line)[i])]

AtLine == pc = "parse" /\ lineNo <= Len(lines)

\* mutant: a vertex line that does not parse is skipped
VertexLine_Skip ==
    /\ AtLine
    /\ IsVertexLine(lines[lineNo])
    /\ LET toks == VertexTokens(lines[lineNo]) IN
       vertices' = IF \A i \in 1..Len(toks) : IsFloat(toks[i])
                   THEN Append(vertices, VertexOf(lines[lineNo]))
                   ELSE vertices
    /\ lineNo' = lineNo + 1
    /\ UNCHANGED <<pc, error, objs, materials, world, sceneCamera, render, importTries,
                   importErr, lines, faces, mesh, renderCalls, printed>>

VertexLine ==
    /\ AtLine
    /\ IsVertexLine(lines[lineNo])
    /\ LET toks == VertexTokens(lines[lineNo]) IN
       \/ /\ \A i \in 1..Len(toks) : IsFloat(toks[i])
          /\ vertices' = Append(vertices, VertexOf(lines[lineNo]))
          /\ lineNo' = lineNo + 1
          /\ UNCHANGED <<pc, error>>
       \/ /\ \E i \in 1..Len(toks) : ~IsFloat(toks[i])
          /\ Raise("ValueError")
          /\ UNCHANGED <<vertices, lineNo>>
    /\ UNCHANGED <<objs, materials, world, sceneCamera, render, importTries, importErr,
                   lines, faces, mesh, renderCalls, printed>>

FaceLine ==
    /\ AtLine
    /\ IsFaceLine(lines[lineNo])
    /\ LET toks == FaceTokens(lines[lineNo]) IN
       \/ /\ \A i \in 1..Len(toks) : IsInt(FirstComponent(toks[i]))
          /\ faces' = Append(faces, FaceOf(lines[lineNo]))
          /\ lineNo' = lineNo + 1
          /\ UNCHANGED <<pc, error>>
       \/ /\ \E i \in 1..Len(toks) : ~IsInt(FirstComponent(toks[i]))
          /\ Raise("ValueError")
          /\ UNCHANGED <<faces, lineNo>>
    /\ UNCHANGED <<objs, materials, world, sceneCamera, render, importTries, importErr,
                   lines, vertices, mesh, renderCalls, printed>>

\* neither branch of the if/elif: the loop goes on to the next line
OtherLine ==
    /\ AtLine
    /\ ~IsVertexLine(lines[lineNo])
    /\ ~IsFaceLine(lines[lineNo])
    /\ lineNo' = lineNo + 1
    /\ UNCHANGED <<pc, objs, materials, world, sceneCamera, render, importTries,
                   importErr, lines, vertices, faces, mesh, renderCalls, printed, error>>

EndOfFile ==
    /\ pc = "parse"
    /\ lineNo > Len(lines)
    /\ pc' = "mesh"
    /\ UNCHANGED <<objs, materials, world, sceneCamera, render, importTries, importErr,
                   lines, lineNo, vertices, faces, mesh, renderCalls, printed, error>>

(***************************************************************************)
(* Lines 39-47: the mesh object of the fallback path.                      *)
(***************************************************************************)
\* foreach_set("co", ...) takes three coordinates for every vertex
Ragged(vs) == \E i \in 1..Len(vs) : Len(vs[i]) # 3

\* a face index that names no vertex: what the host does with it is not defined
Dangling(vs, fs) == \E i \in 1..Len(fs) : \E j \in 1..Len(fs[i]) : fs[i][j] \notin 0..(Len(vs) - 1)

\* meshes.new, objects.new, collection.objects.link
LinkTeapot(o) == [n \in DOMAIN o \cup {"Teapot"} |-> IF n = "Teapot" THEN NewObject("MESH") ELSE o[n]]

\* mutant: obj.select_set(True) left out
SelectTeapot_Missing(o) == o

\* obj.select_set(True)
SelectTeapot(o) == [o EXCEPT !["Teapot"].selected = TRUE]

\* from_pydata raises on vertices that are no triples (after the object is linked);
\* on a face index that names no vertex the host may raise or store the index.
CreateMesh ==
    /\ pc = "mesh"
    /\ \/ /\ ~Ragged(vertices)
          /\ mesh' = [set |-> TRUE, vertices |-> vertices, edges |-> <<>>, faces |-> faces]
          /\ objs' = SelectTeapot(LinkTeapot(objs))
          /\ pc' = "world"
          /\ error' = error
       \/ /\ Ragged(vertices) \/ Dangling(vertices, faces)
          /\ objs' = LinkTeapot(objs)
          /\ Raise("RuntimeError")
          /\ mesh' = mesh
    /\ UNCHANGED <<materials, world, sceneCamera, render, importTries, importErr, lines,
                   lineNo, vertices, faces, renderCalls, printed>>

(***************************************************************************)
(* Lines 49-65: world background and the two lights.                       *)
(***************************************************************************)
SetupWorld ==
    /\ pc = "world"
    /\ \/ /\ world.ok
          /\ world' = [world EXCEPT !.use_nodes = TRUE,
                                    !.bg = <<<<2, 10>>, <<2, 10>>, <<2, 10>>, One>>]
          /\ pc' = "lights"
          /\ error' = error
       \/ /\ ~world.ok
          /\ Raise("AttributeError")
          /\ world' = world
    /\ UNCHANGED <<objs, materials, sceneCamera, render, importTries, importErr, lines,
                   lineNo, vertices, faces, mesh, renderCalls, printed>>

MainLight == [NewObject("LIGHT") EXCEPT !.energy = <<2, 1>>, !.loc = <<5, 5, 5>>]

AmbientLight == [NewObject("LIGHT") EXCEPT !.energy = <<8, 10>>, !.loc = <<-5, -5, -5>>]

AddLights ==
    /\ pc = "lights"
    /\ objs' = [n \in DOMAIN objs \cup {"MainLight", "AmbientLight"} |->
                  CASE n = "MainLight" -> MainLight
                    [] n = "AmbientLight" -> AmbientLight
                    [] OTHER -> objs[n]]
    /\ pc' = "material"
    /\ UNCHANGED <<materials, world, sceneCamera, render, importTries, importErr, lines,
                   lineNo, vertices, faces, mesh, renderCalls, printed, error>>

(***************************************************************************)
(* Lines 67-79: one new material, and the scale, for every selected mesh.  *)
(***************************************************************************)
\* bpy.context.selected_objects
SelectedObjects(o) == {n \in DOMAIN o : o[n].selected /\ ~o[n].hidden}

\* the material created in the iteration for object n
TeapotMaterial(n) == <<"TeapotMaterial", n>>

TeapotScale == <<<<15, 1000>>, <<15, 1000>>, <<15, 1000>>>>

\* the loop body, for object n
Dress(o, n) ==
    IF o[n].type = "MESH"
    THEN [o[n] EXCEPT !.mats = Append(@, TeapotMaterial(n)), !.scale = TeapotScale]
    ELSE o[n]

SetMaterial ==
    /\ pc = "material"
    /\ objs' = [n \in DOMAIN objs |->
                  IF n \in SelectedObjects(objs) THEN Dress(objs, n) ELSE objs[n]]
    /\ materials' = materials \cup
          {TeapotMaterial(n) : n \in {m \in SelectedObjects(objs) : objs[m].type = "MESH"}}
    /\ pc' = "camera"
    /\ UNCHANGED <<world, sceneCamera, render, importTries, importErr, lines, lineNo,
                   vertices, faces, mesh, renderCalls, printed, error>>

(***************************************************************************)
(* Lines 81-93: camera and render settings.                                *)
(***************************************************************************)
CameraObject == [NewObject("CAMERA") EXCEPT !.loc = <<0, 0, 3>>]

\* the name the host gives the new camera object
CameraName(o) == IF "Camera" \in DOMAIN o THEN "Camera.001" ELSE "Camera"

SetupCamera ==
    /\ pc = "camera"
    /\ objs' = [n \in DOMAIN objs \cup {CameraName(objs)} |->
                  IF n = CameraName(objs) THEN CameraObject ELSE objs[n]]
    /\ sceneCamera' = CameraName(objs)
    /\ pc' = "settings"
    /\ UNCHANGED <<materials, world, render, importTries, importErr, lines, lineNo,
                   vertices, faces, mesh, renderCalls, printed, error>>

\* os.path.join(script_dir, name)
InScriptDir(name) == <<"script_dir", name>>

\* mutant: file format and color mode left as the startup file has them
RenderSettings_NoFormat ==
    /\ pc = "settings"
    /\ render' = [render EXCEPT !.engine = "CYCLES", !.samples = 128,
                                !.filepath = InScriptDir("icon-512.png")]
    /\ pc' = "render1"
    /\ UNCHANGED <<objs, materials, world, sceneCamera, importTries, importErr, lines,
                   lineNo, vertices, faces, mesh, renderCalls, printed, error>>

RenderSettings ==
    /\ pc = "settings"
    /\ render' = [render EXCEPT !.engine = "CYCLES", !.samples = 128,
                                !.filepath = InScriptDir("icon-512.png"),
                                !.file_format = "PNG", !.color_mode = "RGBA"]
    /\ pc' = "render1"
    /\ UNCHANGED <<objs, materials, world, sceneCamera, importTries, importErr, lines,
                   lineNo, vertices, faces, mesh, renderCalls, printed, error>>

(***************************************************************************)
(* Lines 95-119: the four render blocks.                                   *)
(***************************************************************************)
\* what one render-and-write call sees: the output settings and the scene
Shot(r, o, w, c) ==
    [filepath |-> r.filepath, resolution_x |-> r.resolution_x,
     resolution_y |-> r.resolution_y, file_format |-> r.file_format,
     color_mode |-> r.color_mode, engine |-> r.engine, samples |-> r.samples,
     objs |-> o, world |-> w, camera |-> c]

\* mutant: a failing render is swallowed and the script goes on
RenderStill_Swallow(msg, next) ==
    /\ \/ /\ renderCalls' = Append(renderCalls, Shot(render', objs', world', sceneCamera'))
          /\ printed' = Append(printed, msg)
       \/ UNCHANGED <<renderCalls, printed>>
    /\ pc' = next
    /\ error' = error

\* bpy.ops.render.render(write_still=True) and the print after it; a failing render
\* raises, and nothing catches it
RenderStill(msg, next) ==
    \/ /\ renderCalls' = Append(renderCalls, Shot(render', objs', world', sceneCamera'))
       /\ printed' = Append(printed, msg)
       /\ pc' = next
       /\ error' = error
    \/ /\ Raise("RuntimeError")
       /\ UNCHANGED <<renderCalls, printed>>

Render512 ==
    /\ pc = "render1"
    /\ render' = [render EXCEPT !.resolution_x = 512, !.resolution_y = 512]
    /\ UNCHANGED <<objs, materials, world, sceneCamera, importTries, importErr, lines,
                   lineNo, vertices, faces, mesh>>
    /\ RenderStill("Generated icon-512.png", "render2")

Render192 ==
    /\ pc = "render2"
    /\ render' = [render EXCEPT !.resolution_x = 192, !.resolution_y = 192,
                                !.filepath = InScriptDir("icon-192.png")]
    /\ UNCHANGED <<objs, materials, world, sceneCamera, importTries, importErr, lines,
                   lineNo, vertices, faces, mesh>>
    /\ RenderStill("Generated icon-192.png", "render3")

\* mutant: the maskable icons get a safe zone, the camera moved back
RenderMaskable512_Padded ==
    /\ pc = "render3"
    /\ render' = [render EXCEPT !.resolution_x = 512, !.resolution_y = 512,
                                !.filepath = InScriptDir("icon-maskable-512.png")]
    /\ objs' = [objs EXCEPT ![sceneCamera].loc = <<0, 0, 4>>]
    /\ UNCHANGED <<materials, world, sceneCamera, importTries, importErr, lines,
                   lineNo, vertices, faces, mesh>>
    /\ RenderStill("Generated icon-maskable-512.png", "render4")

RenderMaskable512 ==
    /\ pc = "render3"
    /\ render' = [render EXCEPT !.resolution_x = 512, !.resolution_y = 512,
                                !.filepath = InScriptDir("icon-maskable-512.png")]
    /\ UNCHANGED <<objs, materials, world, sceneCamera, importTries, importErr, lines,
                   lineNo, vertices, faces, mesh>>
    /\ RenderStill("Generated icon-maskable-512.png", "render4")

RenderMaskable192 ==
    /\ pc = "render4"
    /\ render' = [render EXCEPT !.resolution_x = 192, !.resolution_y = 192,
                                !.filepath = InScriptDir("icon-maskable-192.png")]
    /\ UNCHANGED <<objs, materials, world, sceneCamera, importTries, importErr, lines,
                   lineNo, vertices, faces, mesh>>
    /\ RenderStill("Generated icon-maskable-192.png", "final")

\* line 121
PrintSuccess ==
    /\ pc = "final"
    /\ printed' = Append(printed, "All teapot icons generated successfully!")
    /\ pc' = "done"
    /\ UNCHANGED <<objs, materials, world, sceneCamera, render, importTries, importErr,
                   lines, lineNo, vertices, faces, mesh, renderCalls, error>>

Next ==
    \/ ClearObjects
    \/ ImportReturns
    \/ ImportRaises
    \/ Open
    \/ VertexLine
    \/ FaceLine
    \/ OtherLine
    \/ EndOfFile
    \/ CreateMesh
    \/ SetupWorld
    \/ AddLights
    \/ SetMaterial
    \/ SetupCamera
    \/ RenderSettings
    \/ Render512
    \/ Render192
    \/ RenderMaskable512
    \/ RenderMaskable192
    \/ PrintSuccess

Spec == Init /\ [][Next]_vars

(***************************************************************************)
(* Properties.                                                             *)
(***************************************************************************)
\* the names and sizes of the four icons, in order
IconNames == <<"icon-512.png", "icon-192.png", "icon-maskable-512.png", "icon-maskable-192.png">>
IconSizes == <<512, 192, 512, 192>>

\* C1: a run that reaches its end has made exactly four render-and-write calls, for
\* icon-512.png, icon-192.png, icon-maskable-512.png and icon-maskable-192.png in that
\* order, each in the script's directory; every call that is made is square, of the
\* size in its file name, PNG and RGBA.
C1_FourRendersInOrder ==
    /\ pc \in {"final", "done"} => Len(renderCalls) = 4
    /\ Len(renderCalls) <= 4
    /\ \A i \in 1..Len(renderCalls) :
          /\ renderCalls[i].filepath = <<"script_dir", IconNames[i]>>
          /\ renderCalls[i].resolution_x = IconSizes[i]
          /\ renderCalls[i].resolution_y = IconSizes[i]
          /\ renderCalls[i].file_format = "PNG"
          /\ renderCalls[i].color_mode = "RGBA"

\* a finished run whose startup file asked for JPEG/RGB output
C1_Witness ==
    /\ pc = "done"
    /\ Len(renderCalls) = 4
    /\ "Cube" \in DOMAIN objs

\* the lines of the file the loop has gone through
Done == SubSeq(lines, 1, lineNo - 1)

HasVPrefix(line) == Len(line) >= 2 /\ line[1] = "v" /\ line[2] = " "

HasFPrefix(line) == Len(line) >= 2 /\ line[1] = "f" /\ line[2] = " "

VLines(f) == SelectSeq(f, HasVPrefix)

FLines(f) == SelectSeq(f, HasFPrefix)

\* a vertex line of a well-formed file: at least three coordinates, each a float
WellFormedV(line) ==
    /\ Len(Split(line)) >= 4
    /\ \A j \in 2..4 : IsFloat(Split(line)[j])

\* C2: for a well-formed file the vertex list has one entry per line starting with
\* "v ", in file order, each of exactly 3 components, the values of the 2nd to 4th
\* whitespace-separated tokens of its line.
C2_VerticesMatchVLines ==
    (pc \in {"parse", "mesh"} /\ \A i \in 1..Len(VLines(Done)) : WellFormedV(VLines(Done)[i]))
    => /\ Len(vertices) = Len(VLines(Done))
       /\ \A i \in 1..Len(vertices) :
             /\ Len(vertices[i]) = 3
             /\ \A j \in 1..3 : vertices[i][j] = FloatVal(Split(VLines(Done)[i])[j + 1])

\* the parser at the end of the mixed file: two vertices, the second from a line with
\* runs of blanks and a fourth coordinate
C2_Witness ==
    /\ pc = "mesh"
    /\ lines = MixedFile
    /\ vertices = << <<Zero, Zero, Zero>>, << <<-15, 10>>, <<5, 10>>, <<2, 1>> >> >>

\* the integer ahead of the first "/" of a face token
LeadingInt(p) == IntVal(SubSeq(p, 1, (CHOOSE k \in 0..Len(p) :
                     /\ \A m \in 1..k : p[m] # "/"
                     /\ (k < Len(p) => p[k + 1] = "/"))))

\* C3: every line starting with "f " appends exactly one face, with one entry per token
\* after the first, in token order, each the integer ahead of the first "/" of the
\* token minus 1; the square file (4 vertices, "f 1 2 3 4") yields faces [[0,1,2,3]].
C3_FacesMatchFLines ==
    /\ pc \in {"parse", "mesh"} =>
          /\ Len(faces) = Len(FLines(Done))
          /\ \A i \in 1..Len(faces) :
                LET toks == Split(FLines(Done)[i]) IN
                /\ Len(faces[i]) = Len(toks) - 1
                /\ \A j \in 1..Len(faces[i]) : faces[i][j] = LeadingInt(toks[j + 1]) - 1
    /\ (pc = "mesh" /\ lines = SquareFile) => faces = << <<0, 1, 2, 3>> >>
    /\ (pc = "mesh" /\ lines = <<LineF12>>) => faces = << <<0, 1, 0>> >>

\* the square file parsed
C3_Witness ==
    /\ pc = "mesh"
    /\ lines = SquareFile
    /\ Len(vertices) = 4
    /\ faces = << <<0, 1, 2, 3>> >>

\* every face token of the file is a 1-based index of one of its vertex lines
ValidIndices(f) ==
    \A i \in 1..Len(FLines(f)) :
        LET toks == Split(FLines(f)[i]) IN
        \A j \in 2..Len(toks) :
            /\ IsInt(FirstComponent(toks[j]))
            /\ LeadingInt(toks[j]) \in 1..Len(VLines(f))

\* C4: once the parser has read a file whose face tokens are valid 1-based vertex
\* indices, every index of every face is >= 0 and below the length of the vertex list
\* handed to the mesh, wherever the face lines stand among the vertex lines.
C4_IndicesInBounds ==
    /\ (pc = "mesh" /\ ValidIndices(lines)) =>
          \A i \in 1..Len(faces) : \A j \in 1..Len(faces[i]) :
              faces[i][j] >= 0 /\ faces[i][j] < Len(vertices)
    /\ (mesh.set /\ ValidIndices(lines)) =>
          \A i \in 1..Len(mesh.faces) : \A j \in 1..Len(mesh.faces[i]) :
              mesh.faces[i][j] >= 0 /\ mesh.faces[i][j] < Len(mesh.vertices)

\* a mesh built from a file whose face comes before its vertices
C4_Witness ==
    /\ mesh.set
    /\ lines = FaceFirstFile
    /\ mesh.faces = << <<0, 1, 2>> >>
    /\ Len(mesh.vertices) = 3

\* C5: a line that starts with neither "v " nor "f " leaves the vertex list and the
\* face list unchanged.
C5_OtherLinesIgnored ==
    [][(pc = "parse" /\ lineNo <= Len(lines)
           /\ ~HasVPrefix(lines[lineNo]) /\ ~HasFPrefix(lines[lineNo]))
       => (vertices' = vertices /\ faces' = faces /\ lineNo' = lineNo + 1 /\ pc' = "parse")]_vars

\* the loop has gone past a vertex line behind leading whitespace, and past a normal
C5_Witness ==
    /\ pc = "parse"
    /\ lines = MixedFile
    /\ lineNo = 5
    /\ Len(vertices) = 1
    /\ faces = <<>>

\* the manual parser has been entered
FallbackRan == lineNo > 0 \/ error = "FileNotFoundError"

\* C6: the manual parser runs if and only if the one import call raised, whatever it
\* raised; a successful import never runs it; the import is attempted exactly once; a
\* mesh built by the fallback has as many vertices and faces as the file has lines
\* starting with "v " and "f ".
C6_FallbackIffImportRaised ==
    /\ importTries <= 1
    /\ pc \notin {"clear", "import"} => importTries = 1
    /\ FallbackRan => importErr \in ImportErrors
    /\ (importErr \in ImportErrors /\ pc # "open") => FallbackRan
    /\ importErr = "none" => (~FallbackRan /\ ~mesh.set /\ pc # "open")
    /\ mesh.set =>
          /\ FallbackRan
          /\ Len(mesh.vertices) = Cardinality({i \in 1..Len(lines) : HasVPrefix(lines[i])})
          /\ Len(mesh.faces) = Cardinality({i \in 1..Len(lines) : HasFPrefix(lines[i])})

\* the importer failed (the operator exists), and the fallback built the square
C6_Witness ==
    /\ importErr = "RuntimeError"
    /\ mesh.set
    /\ lines = SquareFile
    /\ Len(mesh.vertices) = 4
    /\ Len(mesh.faces) = 1

\* a line the parser raises on
Malformed(line) ==
    \/ HasVPrefix(line) /\ \E j \in 2..Len(Split(line)) : j <= 4 /\ ~IsFloat(Split(line)[j])
    \/ HasFPrefix(line) /\ \E j \in 2..Len(Split(line)) : ~IsInt(FirstComponent(Split(line)[j]))

SceneUntouched ==
    /\ "Teapot" \notin DOMAIN objs
    /\ ~mesh.set
    /\ "MainLight" \notin DOMAIN objs
    /\ "AmbientLight" \notin DOMAIN objs
    /\ materials = {}
    /\ sceneCamera = "none"
    /\ render.engine # "CYCLES"
    /\ renderCalls = <<>>
    /\ printed = <<>>

\* C7: a failure of the fallback's parsing (no file, a coordinate that is no float, a
\* face token whose first component is no integer) is not caught: the script ends
\* there, before any mesh object, any scene setup and any render call.
C7_ParseFailureEndsScript ==
    /\ \A i \in 1..(lineNo - 1) : ~Malformed(lines[i])
    /\ (pc = "parse" /\ lineNo <= Len(lines) /\ Malformed(lines[lineNo])) => SceneUntouched
    /\ error \in {"FileNotFoundError", "ValueError"} =>
          /\ pc = "aborted"
          /\ SceneUntouched

\* the script ended on the malformed second line of a file
C7_Witness ==
    /\ error = "ValueError"
    /\ pc = "aborted"
    /\ lineNo = 2
    /\ lines = <<LineV0, LineVBad>>
    /\ Len(vertices) = 1

FinalLine == "All teapot icons generated successfully!"

Loaded(o) == {n \in DOMAIN o : n = "Teapot" \/ \E i \in 1..Len(ImportNames) : n = ImportNames[i]}

\* the material loop has run
Dressed == pc = "camera" \/ sceneCamera # "none"

\* C9: on both load paths the loaded mesh is among the selected objects when the
\* material loop runs; the loop gives every selected object of type MESH exactly one new
\* material and the scale 0.015, and the lights and the camera get neither.
C9_MaterialOnLoadedMesh ==
    /\ pc = "material" => (Loaded(objs) # {} /\ Loaded(objs) \subseteq SelectedObjects(objs))
    /\ Dressed =>
          /\ Loaded(objs) # {}
          /\ \A n \in DOMAIN objs :
                IF n \in SelectedObjects(objs) /\ objs[n].type = "MESH"
                THEN /\ n \in Loaded(objs)
                     /\ Len(objs[n].mats) >= 1
                     /\ objs[n].mats[Len(objs[n].mats)] = <<"TeapotMaterial", n>>
                     /\ Cardinality({i \in 1..Len(objs[n].mats) :
                                        objs[n].mats[i] \in materials}) = 1
                     /\ objs[n].scale = <<<<15, 1000>>, <<15, 1000>>, <<15, 1000>>>>
                ELSE /\ \A i \in 1..Len(objs[n].mats) : objs[n].mats[i] \notin materials
                     /\ objs[n].scale = <<One, One, One>>
          /\ \A n \in Loaded(objs) : n \in SelectedObjects(objs)
          /\ Cardinality(materials) = Cardinality(Loaded(objs))

\* the fallback's mesh, dressed, beside a hidden mesh of the startup file, the lights
\* and the camera
C9_Witness ==
    /\ pc = "done"
    /\ mesh.set
    /\ DOMAIN objs = {"Cube", "Teapot", "MainLight", "AmbientLight", "Camera"}
    /\ objs["Teapot"].mats = << <<"TeapotMaterial", "Teapot">> >>
    /\ objs["MainLight"].mats = <<>>

SameScene(a, b) ==
    /\ a.objs = b.objs
    /\ a.world = b.world
    /\ a.camera = b.camera
    /\ a.engine = b.engine
    /\ a.samples = b.samples
    /\ a.file_format = b.file_format
    /\ a.color_mode = b.color_mode

\* C10: between the four render calls only the resolution and the output path change:
\* mesh, scale, material, camera, lights, world, engine and samples are the same at every
\* call, so a maskable icon is rendered from the scene of the plain icon of its size.
C10_OnlyResolutionAndPathChange ==
    /\ \A i, j \in 1..Len(renderCalls) : SameScene(renderCalls[i], renderCalls[j])
    /\ \A i \in 1..Len(renderCalls) :
          /\ renderCalls[i].objs = objs
          /\ renderCalls[i].world = world
          /\ renderCalls[i].camera = sceneCamera
    /\ \A i \in 3..Len(renderCalls) :
          /\ renderCalls[i].resolution_x = renderCalls[i - 2].resolution_x
          /\ renderCalls[i].resolution_y = renderCalls[i - 2].resolution_y
          /\ renderCalls[i].filepath # renderCalls[i - 2].filepath

\* all four calls made, on the import path with two imported objects
C10_Witness ==
    /\ pc = "done"
    /\ Len(renderCalls) = 4
    /\ ImportNames[2] \in DOMAIN objs
    /\ renderCalls[3].objs = renderCalls[1].objs
    /\ renderCalls[3].objs[sceneCamera].loc = <<0, 0, 3>>

====
